---- MODULE Spec2Model ----
(***************************************************************************)
(* The homework grader's client: the Home page (page.tsx), the FileUpload  *)
(* component, the API client (api.ts) and BulkResultsDisplay, with the     *)
(* backend (not part of the sources at hand) modelled from spec.md.        *)
(*                                                                         *)
(* Conventions.  A nullable or optional value is a sequence of length at   *)
(* most one: NULL is <<>> and Some(v) is <<v>>.  A string the code looks   *)
(* into (a file name) is a sequence of characters; a message is a sequence *)
(* of string pieces and the empty string is the empty sequence.            *)
(***************************************************************************)
EXTENDS Integers, Sequences, FiniteSets, TLC

VARIABLES
  mode,          \* page.tsx:13   'single' | 'bulk'
  status,        \* page.tsx:16   UploadStatus
  selectedFile,  \* page.tsx:17   File | null
  onTime,        \* page.tsx:18
  error,         \* page.tsx:19   string | null
  result,        \* page.tsx:20   GradingResult | null
  selectedFiles, \* page.tsx:23   File[]
  bulkResult,    \* page.tsx:24   BulkAnalyzeResponse | null
  isExporting,   \* page.tsx:25
  inflight,      \* the fetch calls that have not settled yet
  received,      \* the call and response the step that led here resumed with
  evaluated,     \* what the pipeline made of each file behind that response
  downloaded,    \* the blob the step that led here handed to downloadBlob
  dropped,       \* the FileList the step that led here read, if it read one
  alerted        \* whether that step showed the alert of FileUpload

vars == <<mode, status, selectedFile, onTime, error, result, selectedFiles,
          bulkResult, isExporting, inflight, received, evaluated, downloaded,
          dropped, alerted>>

----------------------------------------------------------------------------
(* Bounds of the model. *)

\* The longest list of files one drop or one file dialog delivers.
MaxDrop == 2

----------------------------------------------------------------------------
(* Optional values and strings. *)

NULL == <<>>
Some(v) == <<v>>

\* JavaScript truthiness of a string | null | undefined: neither absent nor "".
Truthy(s) == s # NULL /\ s[1] # <<>>

\* a || b on optional strings, b a string.
OrElse(a, b) == IF Truthy(a) THEN a[1] ELSE b

\* String.prototype.toLowerCase, on the characters file names are made of.
LowerChar(c) ==
  CASE c = "C" -> "c"
    [] c = "P" -> "p"
    [] c = "T" -> "t"
    [] c = "X" -> "x"
    [] OTHER -> c

toLowerCase(s) == [i \in 1..Len(s) |-> LowerChar(s[i])]

\* String.prototype.endsWith
endsWith(s, suffix) ==
  /\ Len(s) >= Len(suffix)
  /\ SubSeq(s, Len(s) - Len(suffix) + 1, Len(s)) = suffix

DotPptx == <<".", "p", "p", "t", "x">>

\* The flag never sent as set.
BoolString_AlwaysFalse(b) == "false"

\* String(onTime), api.ts:30
BoolString(b) == IF b THEN "true" ELSE "false"

----------------------------------------------------------------------------
(* The files a user can drop or choose. *)

MaxFileSizeMB == 15
MB == 1024 * 1024

Files ==
  { [name |-> <<"a", "_", "b", ".", "p", "p", "t", "x">>, size |-> 2048],
    [name |-> <<"C", ".", "P", "P", "T", "X">>, size |-> 16 * MB],
    [name |-> <<"d", ".", "p", "d", "f">>, size |-> 1024],
    [name |-> <<"e", ".", "p", "p", "t", "x", ".", "t">>, size |-> 4096] }

\* A FileList: what one drop or one change event of the file input carries.
\* Its files are distinct.
FileLists ==
  { files \in UNION { [1..n -> Files] : n \in 1..MaxDrop } :
      \A i, j \in DOMAIN files : files[i] = files[j] => i = j }

----------------------------------------------------------------------------
(* FileUpload (src/unnamed/part_000). *)

\* includes('.pptx') in the place of endsWith('.pptx').
IsPptx_Includes(file) ==
  LET lower == toLowerCase(file.name)
  IN  \E i \in 1..Len(lower) :
        /\ i + Len(DotPptx) - 1 <= Len(lower)
        /\ SubSeq(lower, i, i + Len(DotPptx) - 1) = DotPptx

\* The test of lines 41, 66 and 90.
IsPptx(file) == endsWith(toLowerCase(file.name), DotPptx)

\* A name of the pattern firstname_lastname.ext: one underscore, with
\* something before it and something other than the dot after it.
NamedByPattern(name) ==
  /\ Cardinality({i \in DOMAIN name : name[i] = "_"}) = 1
  /\ \E i \in DOMAIN name :
       /\ name[i] = "_"
       /\ i > 1
       /\ i < Len(name)
       /\ name[i + 1] # "."

\* Only files named by the pattern pass.
validateFiles_NamedByPattern(files) ==
  SelectSeq(files, LAMBDA f : IsPptx(f) /\ NamedByPattern(f.name))

\* validateFiles: the files of the list that pass the test, in their order.
validateFiles(files) == SelectSeq(files, IsPptx)

----------------------------------------------------------------------------
(* The API client's requests (src/frontend/src/lib/api.ts).  A FormData is *)
(* the sequence of its parts in the order they were appended; a part holds *)
(* a file or a string.                                                     *)

FilePart(n, f) == [name |-> n, file |-> Some(f), text |-> NULL]
TextPart(n, t) == [name |-> n, file |-> NULL, text |-> Some(t)]

\* api.ts:28-30
AnalyzeForm(file, onTimeArg) ==
  <<FilePart("file", file), TextPart("on_time", BoolString(onTimeArg))>>

\* The files appended last to first.
BulkForm_Reversed(files, onTimeArg) ==
  [i \in 1..Len(files) |-> FilePart("files", files[Len(files) + 1 - i])]
    \o <<TextPart("on_time", BoolString(onTimeArg))>>

\* api.ts:91-95 and 118-122: files.forEach(append), then on_time.
BulkForm(files, onTimeArg) ==
  [i \in 1..Len(files) |-> FilePart("files", files[i])]
    \o <<TextPart("on_time", BoolString(onTimeArg))>>

\* The parts of a form with a given name, in order.
PartsNamed(form, n) == SelectSeq(form, LAMBDA p : p.name = n)

\* The files a form carries under a given name, in order.
FormFiles(form, n) ==
  LET ps == PartsNamed(form, n) IN [i \in 1..Len(ps) |-> ps[i].file[1]]

\* Every file of a form, whatever the part's name.
AllFormFiles(form) ==
  LET ps == SelectSeq(form, LAMBDA p : p.file # NULL)
  IN  [i \in 1..Len(ps) |-> ps[i].file[1]]

Request(op, form) == [op |-> op, form |-> form]

----------------------------------------------------------------------------
(* The rubric (src/README.md:39-47 and the criteria box of page.tsx,       *)
(* lines 311-328).                                                         *)

Categories ==
  <<"Ethics Principles", "Scene Explanation", "Template Compliance",
    "Visual Design">>

\* Visual Design worth as much as Template Compliance.
CategoryMax_VisualFifteen == <<15, 50, 15, 15>>

\* The points of the four categories, in the order of Categories.
CategoryMax == <<15, 50, 15, 10>>

\* Specificity, Coherence and Ethical Link of Scene Explanation.
SceneSubMax == <<20, 15, 15>>

OnTimeBonus == 10
MaxTotalScore == 100

\* "At least 5 distinct ethics principles".
PrincipleThreshold == 5

RECURSIVE SumSeq(_)
SumSeq(s) == IF s = <<>> THEN 0 ELSE s[1] + SumSeq(Tail(s))

----------------------------------------------------------------------------
(* The backend, modelled from spec.md (sections 3, 4.2-4.5 and 6): its     *)
(* code is not among the sources.  Scores are whole numbers here.  The     *)
(* evaluator is not deterministic, so what a file earns is chosen anew at  *)
(* every grading.                                                          *)

Min(a, b) == IF a <= b THEN a ELSE b
Max(a, b) == IF a >= b THEN a ELSE b

\* A score taken as the evaluator gave it.
Clamp_Trusting(x, lo, hi) == x

\* Defensive normalization into [lo, hi].
Clamp(x, lo, hi) == Max(lo, Min(hi, x))

\* An element of a slide, as far as the checks read it: a page number, the
\* name of an ethics principle, or the label of a template field.
PageNumber(n) == [kind |-> "page_number", number |-> n, label |-> ""]
Principle(l) == [kind |-> "principle", number |-> 0, label |-> l]
Field(l) == [kind |-> "field", number |-> 0, label |-> l]

Slide(n, elements) == [slide_no |-> n, elements |-> elements]

\* The labels a template must carry.
RequiredFields == {"ad", "soyad", "numara", "film"}

\* No slide at all.
EmptyDoc == <<>>

\* Malformed: the second slide could not be parsed (no elements) and its
\* number does not continue the first's; one principle, one field.
SparseDoc ==
  <<Slide(1, <<PageNumber(1), Principle("adalet"), Field("ad")>>),
    Slide(3, <<>>)>>

\* More principles than the threshold, one of them twice, every required
\* field and one that is not required.
RichDoc ==
  <<Slide(1, <<PageNumber(1), Principle("adalet"), Principle("durustluk"),
               Principle("saygi"), Principle("sorumluluk"), Field("ad"),
               Field("soyad"), Field("numara")>>),
    Slide(2, <<PageNumber(2), Principle("esitlik"), Principle("gizlilik"),
               Principle("adalet"), Field("film"), Field("tarih")>>)>>

\* The labels of the elements of one kind, over all slides.
Labels(doc, kind) ==
  UNION { { doc[s].elements[e].label :
              e \in { k \in DOMAIN doc[s].elements :
                        doc[s].elements[k].kind = kind } } :
          s \in DOMAIN doc }

\* The slides that carry their own number as page number.
NumberedSlides(doc) ==
  { s \in DOMAIN doc :
      \E e \in DOMAIN doc[s].elements :
        /\ doc[s].elements[e].kind = "page_number"
        /\ doc[s].elements[e].number = doc[s].slide_no }

\* The maximum of each deterministic check.
CheckMax ==
  [page_numbers |-> 5, ethics_principles |-> 15, template_fields |-> 10]

\* Credit for every sub-criterion met, however many there are to meet.
PartialCredit_Uncapped(maxScore, satisfied, outOf) ==
  IF outOf = 0 THEN 0 ELSE (maxScore * satisfied) \div outOf

\* Partial credit proportional to the fraction of sub-criteria satisfied;
\* nothing to satisfy is a failure, not an error.
PartialCredit(maxScore, satisfied, outOf) ==
  IF outOf = 0 THEN 0 ELSE (maxScore * Min(satisfied, outOf)) \div outOf

CheckResult(name, satisfied, outOf) ==
  [check_name |-> name,
   passed |-> outOf > 0 /\ satisfied >= outOf,
   score |-> PartialCredit(CheckMax[name], satisfied, outOf),
   max_score |-> CheckMax[name]]

\* runChecks: one CheckResult per registered check.
runChecks(doc) ==
  <<CheckResult("page_numbers", Cardinality(NumberedSlides(doc)), Len(doc)),
    CheckResult("ethics_principles",
                Cardinality(Labels(doc, "principle")), PrincipleThreshold),
    CheckResult("template_fields",
                Cardinality(Labels(doc, "field") \cap RequiredFields),
                Cardinality(RequiredFields))>>

\* What the evaluator may return for the four categories: values below
\* zero and above the maximum, values within, the maxima themselves.
OutOfRange == <<0 - 5, 100, 15, 5>>
Halfway == <<10, 20, 5, 5>>
FullMarks == <<15, 50, 15, 10>>

\* The evaluator's score passed on as it came.
gradeCategory_Unclamped(c, raw) ==
  [category |-> Categories[c], score |-> raw, max_score |-> CategoryMax[c]]

\* gradeCategory: the evaluator's score for the c-th category, clamped.
gradeCategory(c, raw) ==
  [category |-> Categories[c],
   score |-> Clamp(raw, 0, CategoryMax[c]),
   max_score |-> CategoryMax[c]]

\* The total with the checks' scores added to the rubric's.
Aggregate_AddsChecks(checks, rubricScores, onTimeArg) ==
  [total_score |->
     Clamp(SumSeq([c \in DOMAIN rubricScores |-> rubricScores[c].score])
             + SumSeq([k \in DOMAIN checks |-> checks[k].score])
             + (IF onTimeArg THEN OnTimeBonus ELSE 0),
           0, MaxTotalScore),
   rubric_scores |-> rubricScores,
   deterministic_checks |-> checks,
   on_time_submitted |-> onTimeArg]

\* aggregate (section 4.4): the checks are folded into the rubric's
\* categories ("Template Compliance: required fields + page numbers"), so
\* the total is the rubric's sum and the bonus, clamped.
Aggregate(checks, rubricScores, onTimeArg) ==
  [total_score |->
     Clamp(SumSeq([c \in DOMAIN rubricScores |-> rubricScores[c].score])
             + (IF onTimeArg THEN OnTimeBonus ELSE 0),
           0, MaxTotalScore),
   rubric_scores |-> rubricScores,
   deterministic_checks |-> checks,
   on_time_submitted |-> onTimeArg]

\* What the pipeline may make of one file: a failure, or a document and
\* the evaluator's scores for it.
PipelineOutcomes ==
  { [failed |-> TRUE, doc |-> EmptyDoc, raw |-> <<0, 0, 0, 0>>],
    [failed |-> FALSE, doc |-> EmptyDoc, raw |-> OutOfRange],
    [failed |-> FALSE, doc |-> SparseDoc, raw |-> Halfway],
    [failed |-> FALSE, doc |-> RichDoc, raw |-> FullMarks] }

\* The single-file pipeline on an outcome that is no failure.
GradingOf(outcome, onTimeArg) ==
  Aggregate(runChecks(outcome.doc),
            [c \in DOMAIN Categories |-> gradeCategory(c, outcome.raw[c])],
            onTimeArg)

RECURSIVE LastIndexOf(_, _)
LastIndexOf(s, c) ==
  IF s = <<>> THEN 0
  ELSE IF s[Len(s)] = c THEN Len(s)
  ELSE LastIndexOf(SubSeq(s, 1, Len(s) - 1), c)

\* The file name without its extension.
Stem(filename) ==
  LET dot == LastIndexOf(filename, ".")
  IN  IF dot = 0 THEN filename ELSE SubSeq(filename, 1, dot - 1)

\* student_name: firstname_lastname.ext gives "firstname lastname", any
\* other name its stem.
StudentName(filename) ==
  LET stem == Stem(filename)
  IN  [i \in 1..Len(stem) |-> IF stem[i] = "_" THEN " " ELSE stem[i]]

\* One StudentResult: result present iff success, error present iff not.
StudentResultOf(file, onTimeArg, outcome) ==
  [student_name |-> StudentName(file.name),
   filename |-> file.name,
   success |-> ~outcome.failed,
   result |-> IF outcome.failed THEN NULL
              ELSE Some(GradingOf(outcome, onTimeArg)),
   error |-> IF outcome.failed THEN Some(<<"Dosya islenemedi">>) ELSE NULL]

CountIf(seq, Test(_)) == Cardinality({i \in DOMAIN seq : Test(seq[i])})

\* runBulk: one StudentResult per file, in input order, and the counts.
runBulk(files, onTimeArg, outcomes) ==
  LET results == [i \in 1..Len(files) |->
                    StudentResultOf(files[i], onTimeArg, outcomes[i])]
  IN  [total_files |-> Len(files),
       successful |-> CountIf(results, LAMBDA r : r.success),
       failed |-> CountIf(results, LAMBDA r : ~r.success),
       results |-> results]

\* The spreadsheet: one row per StudentResult of a report, in its order.
ExcelOf(report) ==
  [i \in 1..Len(report.results) |->
     [student_name |-> report.results[i].student_name,
      success |-> report.results[i].success,
      total_score |-> IF report.results[i].result = NULL THEN NULL
                      ELSE Some(report.results[i].result[1].total_score)]]

\* The on_time field of a form, as the backend reads it.
FormOnTime(form) == PartsNamed(form, "on_time")[1].text[1] = "true"

----------------------------------------------------------------------------
(* What fetch can come back with. *)

\* fetch itself rejects (no connection).
Rejected == [rejected |-> TRUE, ok |-> FALSE, status |-> "0", body |-> NULL]

\* A response; body is NULL when it cannot be read or parsed.
Response(ok, st, body) ==
  [rejected |-> FALSE, ok |-> ok, status |-> st, body |-> body]

ErrorStatuses == {"413", "500"}

\* The JSON of an error response: an object whose detail is absent, empty
\* or a message, or the value null.
ErrorBodies ==
  { [isNull |-> FALSE, detail |-> d] :
      d \in {NULL, Some(<<>>), Some(<<"Sunucu hatasi">>)} }
    \cup { [isNull |-> TRUE, detail |-> NULL] }

ErrorResponses ==
  { Response(FALSE, st, b) :
      st \in ErrorStatuses, b \in {NULL} \cup { Some(e) : e \in ErrorBodies } }

\* AnalyzeResponse (types/index.ts:59-64): result and error are optional
\* whatever success is; the result, when there is one, is the grading of
\* the file.
AnalyzeResponses(outcome, onTimeArg) ==
  { [success |-> s,
     result |-> IF outcome.failed THEN NULL
                ELSE Some(GradingOf(outcome, onTimeArg)),
     error |-> e] :
      s \in BOOLEAN,
      e \in {NULL, Some(<<>>), Some(<<"Dosya islenemedi">>)} }

----------------------------------------------------------------------------
(* The API client after the fetch (api.ts:37-46, 102-111, 129-138): what   *)
(* the awaited call gives its caller.  threw is "none" (value is what it   *)
(* returned), "APIError" (with status and message) or "Error" (anything    *)
(* else thrown: fetch rejected, or the body could not be read).            *)

Returned(v) ==
  [threw |-> "none", status |-> "0", message |-> <<>>, value |-> Some(v)]
ThrewAPIError(msg, st) ==
  [threw |-> "APIError", status |-> st, message |-> msg, value |-> NULL]
ThrewError ==
  [threw |-> "Error", status |-> "0", message |-> <<>>, value |-> NULL]

\* The three calls differ in the default message only.
ApiCall(resp, defaultMessage) ==
  IF resp.rejected THEN ThrewError
  ELSE IF ~resp.ok THEN
    \* response.json().catch(() => ({}))
    LET errorData == IF resp.body = NULL
                       THEN [isNull |-> FALSE, detail |-> NULL]
                       ELSE resp.body[1]
    IN  \* errorData.detail of null is a TypeError
        IF errorData.isNull THEN ThrewError
        ELSE ThrewAPIError(OrElse(errorData.detail, defaultMessage),
                           resp.status)
  ELSE IF resp.body = NULL THEN ThrewError
  ELSE Returned(resp.body[1])

analyzePresentation(resp) == ApiCall(resp, <<"Analysis failed">>)
analyzeBulk(resp) == ApiCall(resp, <<"Bulk analysis failed">>)
exportExcel(resp) == ApiCall(resp, <<"Excel export failed">>)

----------------------------------------------------------------------------
(* Home (src/frontend/src/app/page.tsx). *)

\* Home without a progress screen: the upload form in its place.
Screen_NoProgress ==
  IF mode = "single" /\ status = "complete" /\ result # NULL THEN "results"
  ELSE IF mode = "bulk" /\ status = "complete" /\ bulkResult # NULL
    THEN "bulkResults"
  ELSE "upload"

\* Which of the four screens Home renders (lines 122-145).
Screen ==
  IF mode = "single" /\ status = "complete" /\ result # NULL THEN "results"
  ELSE IF mode = "bulk" /\ status = "complete" /\ bulkResult # NULL
    THEN "bulkResults"
  ELSE IF status \in {"uploading", "analyzing"} THEN "progress"
  ELSE "upload"

\* An upload zone that is never disabled.
UploadDisabled_Never == FALSE

\* The disabled prop of FileUpload (lines 198, 205).
UploadDisabled == status # "idle"

\* The error card of the upload form (line 241).
ErrorShown == Screen = "upload" /\ Truthy(error)

\* The message of the catch blocks of handleAnalyze and handleBulkAnalyze.
CaughtMessage(r) ==
  IF r.threw = "APIError"
    THEN <<"Hata (", r.status, "): ">> \o r.message
    ELSE <<"Beklenmeyen bir hata olustu. Lutfen tekrar deneyin.">>

\* The message of the catch block of handleExportExcel.
ExportCaughtMessage(r) ==
  IF r.threw = "APIError"
    THEN <<"Excel olusturma hatasi: ">> \o r.message
    ELSE <<"Excel olusturulurken bir hata olustu.">>

Init ==
  /\ mode = "single"
  /\ status = "idle"
  /\ selectedFile = NULL
  /\ onTime = FALSE
  /\ error = NULL
  /\ result = NULL
  /\ selectedFiles = <<>>
  /\ bulkResult = NULL
  /\ isExporting = FALSE
  /\ inflight = <<>>
  /\ received = NULL
  /\ evaluated = NULL
  /\ downloaded = NULL
  /\ dropped = NULL
  /\ alerted = FALSE

\* handleFileSelect (lines 28-33)
handleFileSelect(file) ==
  /\ selectedFile' = Some(file)
  /\ error' = NULL
  /\ result' = NULL
  /\ status' = "idle"
  /\ alerted' = FALSE
  /\ UNCHANGED <<mode, onTime, selectedFiles, bulkResult, isExporting,
                 inflight>>

\* handleFilesSelect (lines 64-69)
handleFilesSelect(files) ==
  /\ selectedFiles' = files
  /\ error' = NULL
  /\ bulkResult' = NULL
  /\ status' = "idle"
  /\ alerted' = FALSE
  /\ UNCHANGED <<mode, onTime, selectedFile, result, isExporting, inflight>>

\* No callback is invoked: the alert (part_000:62, 69, 86, 93) changes no
\* state of Home.
NothingSelected ==
  /\ alerted' = TRUE
  /\ UNCHANGED <<mode, status, selectedFile, onTime, error, result,
                 selectedFiles, bulkResult, isExporting, inflight>>

\* The single branch taking the first valid file of the list.
SelectFrom_FirstValid(files) ==
  /\ dropped' = Some(files)
  /\ downloaded' = NULL
  /\ received' = NULL
  /\ evaluated' = NULL
  /\ LET validFiles == validateFiles(files)
     IN  IF Len(validFiles) = 0 THEN NothingSelected
         ELSE IF mode = "bulk" THEN handleFilesSelect(validFiles)
         ELSE handleFileSelect(validFiles[1])

\* A list with a file of another kind refused as a whole.
SelectFrom_AllOrNothing(files) ==
  /\ dropped' = Some(files)
  /\ downloaded' = NULL
  /\ received' = NULL
  /\ evaluated' = NULL
  /\ IF mode = "bulk"
       THEN IF Len(validateFiles(files)) = Len(files)
              THEN handleFilesSelect(files)
              ELSE NothingSelected
       ELSE LET file == files[1]
            IN  IF IsPptx(file) THEN handleFileSelect(file)
                ELSE NothingSelected

\* What handleDrop and handleFileChange do with a non-empty FileList
\* (part_000:56-72 and 80-96); mode = 'bulk' renders FileUpload with
\* multiple and onFilesSelect.
SelectFrom(files) ==
  /\ dropped' = Some(files)
  /\ downloaded' = NULL
  /\ received' = NULL
  /\ evaluated' = NULL
  /\ IF mode = "bulk"
       THEN LET validFiles == validateFiles(files)
            IN  IF Len(validFiles) > 0 THEN handleFilesSelect(validFiles)
                ELSE NothingSelected
       ELSE LET file == files[1]
            IN  IF IsPptx(file) THEN handleFileSelect(file)
                ELSE NothingSelected

\* handleDrop (part_000:48-75): returns at once when disabled.
handleDrop ==
  /\ Screen = "upload"
  /\ IF UploadDisabled THEN UNCHANGED vars
     ELSE \E files \in FileLists : SelectFrom(files)

\* handleClick and handleFileChange (part_000:77-105): the dialog opens
\* only when not disabled, and the input is disabled with the zone; an
\* input without multiple delivers one file.
handleFileChange ==
  /\ Screen = "upload"
  /\ ~UploadDisabled
  /\ \E files \in FileLists :
       /\ mode = "single" => Len(files) = 1
       /\ SelectFrom(files)

\* A reset that leaves the on-time switch as it stands.
handleReset_KeepsOnTime ==
  /\ status' = "idle"
  /\ selectedFile' = NULL
  /\ selectedFiles' = <<>>
  /\ UNCHANGED onTime
  /\ error' = NULL
  /\ result' = NULL
  /\ bulkResult' = NULL

\* handleReset (lines 112-120)
handleReset ==
  /\ status' = "idle"
  /\ selectedFile' = NULL
  /\ selectedFiles' = <<>>
  /\ onTime' = FALSE
  /\ error' = NULL
  /\ result' = NULL
  /\ bulkResult' = NULL

\* UploadMode (page.tsx:13)
UploadModes == {"single", "bulk"}

\* A mode button that sets the mode and resets nothing.
ClickModeButton_KeepsData(m) ==
  /\ Screen = "upload"
  /\ mode' = m
  /\ UNCHANGED <<status, selectedFile, selectedFiles, onTime, error, result,
                 bulkResult, isExporting, inflight>>
  /\ downloaded' = NULL
  /\ received' = NULL
  /\ evaluated' = NULL
  /\ dropped' = NULL
  /\ alerted' = FALSE

\* The button of mode m in the mode selector (lines 160-185): setMode(m),
\* then handleReset.
ClickModeButton(m) ==
  /\ Screen = "upload"
  /\ mode' = m
  /\ handleReset
  /\ UNCHANGED <<isExporting, inflight>>
  /\ downloaded' = NULL
  /\ received' = NULL
  /\ evaluated' = NULL
  /\ dropped' = NULL
  /\ alerted' = FALSE

\* The two buttons of the mode selector.
ClickMode == \E m \in UploadModes : ClickModeButton(m)

\* A reset that also takes the export for finished.
ClickReset_ClearsExporting ==
  /\ Screen \in {"results", "bulkResults"}
  /\ handleReset
  /\ isExporting' = FALSE
  /\ UNCHANGED <<mode, inflight>>
  /\ downloaded' = NULL
  /\ received' = NULL
  /\ evaluated' = NULL
  /\ dropped' = NULL
  /\ alerted' = FALSE

\* onReset of ResultsDisplay and of BulkResultsDisplay (lines 124, 132).
ClickReset ==
  /\ Screen \in {"results", "bulkResults"}
  /\ handleReset
  /\ UNCHANGED <<mode, isExporting, inflight>>
  /\ downloaded' = NULL
  /\ received' = NULL
  /\ evaluated' = NULL
  /\ dropped' = NULL
  /\ alerted' = FALSE

\* The on-time switch (line 224).
ToggleOnTime ==
  /\ Screen = "upload"
  /\ onTime' = ~onTime
  /\ UNCHANGED <<mode, status, selectedFile, error, result, selectedFiles,
                 bulkResult, isExporting, inflight>>
  /\ downloaded' = NULL
  /\ received' = NULL
  /\ evaluated' = NULL
  /\ dropped' = NULL
  /\ alerted' = FALSE

\* A Kapat button that also makes the upload zone usable again.
DismissError_BackToIdle ==
  /\ ErrorShown
  /\ error' = NULL
  /\ status' = "idle"
  /\ UNCHANGED <<mode, selectedFile, onTime, result, selectedFiles,
                 bulkResult, isExporting, inflight>>
  /\ downloaded' = NULL
  /\ received' = NULL
  /\ evaluated' = NULL
  /\ dropped' = NULL
  /\ alerted' = FALSE

\* The Kapat button of the error card (line 263).
DismissError ==
  /\ ErrorShown
  /\ error' = NULL
  /\ UNCHANGED <<mode, status, selectedFile, onTime, result, selectedFiles,
                 bulkResult, isExporting, inflight>>
  /\ downloaded' = NULL
  /\ received' = NULL
  /\ evaluated' = NULL
  /\ dropped' = NULL
  /\ alerted' = FALSE

\* handleAnalyze up to its await (lines 35-43); the button is rendered in
\* single mode and disabled without a file (lines 273-278).  The two
\* setStatus calls run in one event handler: 'analyzing' is what is
\* rendered.
handleAnalyze ==
  /\ Screen = "upload"
  /\ mode = "single"
  /\ selectedFile # NULL
  /\ status' = "analyzing"
  /\ error' = NULL
  /\ inflight' = Append(inflight,
                        Request("analyze", AnalyzeForm(selectedFile[1], onTime)))
  /\ UNCHANGED <<mode, selectedFile, onTime, result, selectedFiles,
                 bulkResult, isExporting>>
  /\ downloaded' = NULL
  /\ received' = NULL
  /\ evaluated' = NULL
  /\ dropped' = NULL
  /\ alerted' = FALSE

\* handleBulkAnalyze up to its await (lines 71-79).
handleBulkAnalyze ==
  /\ Screen = "upload"
  /\ mode = "bulk"
  /\ Len(selectedFiles) # 0
  /\ status' = "analyzing"
  /\ error' = NULL
  /\ inflight' = Append(inflight,
                        Request("analyze-bulk", BulkForm(selectedFiles, onTime)))
  /\ UNCHANGED <<mode, selectedFile, onTime, result, selectedFiles,
                 bulkResult, isExporting>>
  /\ downloaded' = NULL
  /\ received' = NULL
  /\ evaluated' = NULL
  /\ dropped' = NULL
  /\ alerted' = FALSE

\* handleExportExcel up to its await (lines 93-98); the button belongs to
\* BulkResultsDisplay and is disabled while isExporting (line 147).
handleExportExcel ==
  /\ Screen = "bulkResults"
  /\ ~isExporting
  /\ IF Len(selectedFiles) = 0 THEN UNCHANGED vars
     ELSE /\ isExporting' = TRUE
          /\ inflight' = Append(inflight,
                                Request("export-excel",
                                        BulkForm(selectedFiles, onTime)))
          /\ UNCHANGED <<mode, status, selectedFile, onTime, error, result,
                         selectedFiles, bulkResult>>
          /\ downloaded' = NULL
          /\ received' = NULL
          /\ evaluated' = NULL
          /\ dropped' = NULL
          /\ alerted' = FALSE

\* What a fetch comes back with when no OK response with a readable body
\* does: fetch rejects, a response that is not OK, an unreadable body.
FailedFetches ==
  {Rejected, Response(TRUE, "200", NULL)} \cup ErrorResponses

\* The OK responses of POST /api/analyze to a request, the pipeline having
\* made outcome of its file.
AnalyzeAnswers(req, outcome) ==
  { Response(TRUE, "200", Some(body)) :
      body \in AnalyzeResponses(outcome, FormOnTime(req.form)) }

\* The OK response of POST /api/analyze-bulk to a request: the report of
\* its files, the pipeline having made outcomes[k] of the k-th.
BulkAnswer(req, outcomes) ==
  Response(TRUE, "200",
           Some(runBulk(FormFiles(req.form, "files"), FormOnTime(req.form),
                        outcomes)))

\* The OK response of POST /api/export-excel to a request: its files are
\* graded again and the sheet of that report is the body.
ExportAnswer(req, outcomes) ==
  Response(TRUE, "200",
           Some(ExcelOf(runBulk(FormFiles(req.form, "files"),
                                FormOnTime(req.form), outcomes))))

\* The outcomes the pipeline may come to for the files of a request.
OutcomeVectors(req) ==
  [1..Len(FormFiles(req.form, "files")) -> PipelineOutcomes]

\* inflight without its i-th request.
RemoveAt(seq, i) == SubSeq(seq, 1, i - 1) \o SubSeq(seq, i + 1, Len(seq))

\* The i-th call settles with resp and its handler resumes.
Settled(i, resp) ==
  /\ inflight' = RemoveAt(inflight, i)
  /\ received' = Some([op |-> inflight[i].op, resp |-> resp])

\* The test of line 45 without its second half.
AnalysisSucceeded_NoResultTest(response) == response.success

\* The test of line 45.
AnalysisSucceeded(response) == response.success /\ response.result # NULL

\* A catch block that shows the message and leaves the status alone.
AnalyzeContinues_CatchKeepsStatus(i, resp) ==
  /\ LET r == analyzePresentation(resp)
     IN  IF r.threw = "none"
           THEN LET response == r.value[1]
                IN  IF AnalysisSucceeded(response)
                      THEN /\ result' = response.result
                           /\ status' = "complete"
                           /\ UNCHANGED error
                      ELSE /\ error' = Some(OrElse(response.error,
                                              <<"Analiz basarisiz oldu">>))
                           /\ status' = "error"
                           /\ UNCHANGED result
           ELSE /\ error' = Some(CaughtMessage(r))
                /\ UNCHANGED <<status, result>>
  /\ Settled(i, resp)
  /\ downloaded' = NULL
  /\ dropped' = NULL
  /\ alerted' = FALSE
  /\ UNCHANGED <<mode, selectedFile, onTime, selectedFiles, bulkResult,
                 isExporting>>

\* handleAnalyze after its await, resumed with resp (lines 43-60).
AnalyzeContinues(i, resp) ==
  /\ LET r == analyzePresentation(resp)
     IN  IF r.threw = "none"
           THEN LET response == r.value[1]
                IN  IF AnalysisSucceeded(response)
                      THEN /\ result' = response.result
                           /\ status' = "complete"
                           /\ UNCHANGED error
                      ELSE /\ error' = Some(OrElse(response.error,
                                              <<"Analiz basarisiz oldu">>))
                           /\ status' = "error"
                           /\ UNCHANGED result
           ELSE /\ error' = Some(CaughtMessage(r))
                /\ status' = "error"
                /\ UNCHANGED result
  /\ Settled(i, resp)
  /\ downloaded' = NULL
  /\ dropped' = NULL
  /\ alerted' = FALSE
  /\ UNCHANGED <<mode, selectedFile, onTime, selectedFiles, bulkResult,
                 isExporting>>

handleAnalyzeResume ==
  \E i \in DOMAIN inflight :
    /\ inflight[i].op = "analyze"
    /\ \/ \E resp \in FailedFetches :
            /\ AnalyzeContinues(i, resp)
            /\ evaluated' = NULL
       \/ \E outcome \in PipelineOutcomes :
            \E resp \in AnalyzeAnswers(inflight[i], outcome) :
              /\ AnalyzeContinues(i, resp)
              /\ evaluated' = Some(<<outcome>>)

\* A batch with a failed file taken for a failed request.
BulkAnalysisSucceeded_NoFailedFile(r) ==
  r.threw = "none" /\ r.value[1].failed = 0

\* Whether the try block of handleBulkAnalyze runs to its end (lines
\* 77-81): analyzeBulk returned.
BulkAnalysisSucceeded(r) == r.threw = "none"

\* handleBulkAnalyze after its await, resumed with resp (lines 79-90).
BulkAnalyzeContinues(i, resp) ==
  /\ LET r == analyzeBulk(resp)
     IN  IF BulkAnalysisSucceeded(r)
           THEN /\ bulkResult' = r.value
                /\ status' = "complete"
                /\ UNCHANGED error
           ELSE /\ error' = Some(CaughtMessage(r))
                /\ status' = "error"
                /\ UNCHANGED bulkResult
  /\ Settled(i, resp)
  /\ downloaded' = NULL
  /\ dropped' = NULL
  /\ alerted' = FALSE
  /\ UNCHANGED <<mode, selectedFile, onTime, result, selectedFiles,
                 isExporting>>

handleBulkAnalyzeResume ==
  \E i \in DOMAIN inflight :
    /\ inflight[i].op = "analyze-bulk"
    /\ \/ \E resp \in FailedFetches :
            /\ BulkAnalyzeContinues(i, resp)
            /\ evaluated' = NULL
       \/ \E outcomes \in OutcomeVectors(inflight[i]) :
            /\ BulkAnalyzeContinues(i, BulkAnswer(inflight[i], outcomes))
            /\ evaluated' = Some(outcomes)

\* handleExportExcel after its await, resumed with resp (lines 98-109).
ExportContinues(i, resp) ==
  /\ LET r == exportExcel(resp)
     IN  IF r.threw = "none"
           THEN /\ downloaded' = r.value
                /\ UNCHANGED error
           ELSE /\ error' = Some(ExportCaughtMessage(r))
                /\ downloaded' = NULL
  /\ isExporting' = FALSE
  /\ Settled(i, resp)
  /\ dropped' = NULL
  /\ alerted' = FALSE
  /\ UNCHANGED <<mode, status, selectedFile, onTime, result, selectedFiles,
                 bulkResult>>

handleExportExcelResume ==
  \E i \in DOMAIN inflight :
    /\ inflight[i].op = "export-excel"
    /\ \/ \E resp \in FailedFetches :
            /\ ExportContinues(i, resp)
            /\ evaluated' = NULL
       \/ \E outcomes \in OutcomeVectors(inflight[i]) :
            /\ ExportContinues(i, ExportAnswer(inflight[i], outcomes))
            /\ evaluated' = Some(outcomes)

Next ==
  \/ handleDrop
  \/ handleFileChange
  \/ ClickMode
  \/ ClickReset
  \/ ToggleOnTime
  \/ DismissError
  \/ handleAnalyze
  \/ handleBulkAnalyze
  \/ handleExportExcel
  \/ handleAnalyzeResume
  \/ handleBulkAnalyzeResume
  \/ handleExportExcelResume

Spec == Init /\ [][Next]_vars

\* Home with every analysis request settling: the fetch awaited at
\* page.tsx:43 and 79 resolves or rejects in the end, and the handler
\* resumes when it does.
FairSpec ==
  /\ Spec
  /\ WF_vars(handleAnalyzeResume)
  /\ WF_vars(handleBulkAnalyzeResume)

----------------------------------------------------------------------------
(* BulkResultsDisplay (src/frontend/src/components/BulkResultsDisplay.tsx). *)

\* The result read before success is looked at.
StudentResultCard_ReadsFirst(student) ==
  IF student.result = NULL
    THEN [kind |-> "throws", text |-> NULL, score |-> NULL]
  ELSE IF ~student.success
    THEN [kind |-> "error", text |-> student.error, score |-> NULL]
  ELSE [kind |-> "score", text |-> NULL,
        score |-> Some(student.result[1].total_score)]

\* StudentResultCard (lines 14-111): the error card of a failed entry, the
\* score card of a successful one; student.result! of an entry without a
\* result is undefined, and reading its total_score throws.
StudentResultCard(student) ==
  IF ~student.success
    THEN [kind |-> "error", text |-> student.error, score |-> NULL]
  ELSE IF student.result = NULL
    THEN [kind |-> "throws", text |-> NULL, score |-> NULL]
  ELSE [kind |-> "score", text |-> NULL,
        score |-> Some(student.result[1].total_score)]

\* The two numbers in each other's card.
SummaryCards_Swapped(report) ==
  [successful |-> report.failed, failed |-> report.successful]

\* The 'Basarili' and 'Hatali' summary cards (lines 204-211).
SummaryCards(report) ==
  [successful |-> report.successful, failed |-> report.failed]

\* The cards of the results list (lines 217-219), one per entry of the
\* report, indexed here by the entry's place in result.results.
ResultCards(report) ==
  [i \in DOMAIN report.results |-> StudentResultCard(report.results[i])]

\* successfulResults (line 120): the entries with success and a result, in
\* the report's order.
successfulResults(report) ==
  SelectSeq(report.results, LAMBDA r : r.success /\ r.result # NULL)

\* The sum of the scores over the number of all entries.
avgScore_OverAllEntries(report) ==
  LET graded == successfulResults(report)
  IN  IF Len(graded) > 0
        THEN [num |-> SumSeq([i \in DOMAIN graded |->
                                graded[i].result[1].total_score]),
              den |-> Len(report.results)]
        ELSE [num |-> 0, den |-> 1]

\* avgScore (lines 121-125): a quotient, held as its numerator and its
\* denominator; the 0 of the other branch is 0 over 1.
avgScore(report) ==
  LET graded == successfulResults(report)
  IN  IF Len(graded) > 0
        THEN [num |-> SumSeq([i \in DOMAIN graded |->
                                graded[i].result[1].total_score]),
              den |-> Len(graded)]
        ELSE [num |-> 0, den |-> 1]

\* Number.prototype.toFixed(1) (line 201) of a quotient that is not
\* negative, in tenths: the nearest tenth, the larger of two equally near.
toFixed1(q) == (20 * q.num + q.den) \div (2 * q.den)

\* Ascending scores.
compare_Ascending(a, b) ==
  IF ~a.success THEN 1
  ELSE IF ~b.success THEN 0 - 1
  ELSE a.result[1].total_score - b.result[1].total_score

\* The comparator of the sort (lines 128-132).
compare(a, b) ==
  IF ~a.success THEN 1
  ELSE IF ~b.success THEN 0 - 1
  ELSE b.result[1].total_score - a.result[1].total_score

\* The orders of 1..n.
Orders(n) ==
  { p \in [1..n -> 1..n] : \A i, j \in 1..n : p[i] = p[j] => i = j }

\* sortedResults (lines 128-132): [...result.results].sort(compare), the
\* sort of a copy.  The comparator is not consistent (of two failed
\* entries each comes after the other, and a failed entry after itself),
\* so the order is the implementation's: any order of the entries in which
\* no two stand against what the comparator says of them both ways round.
sortedResults(results) ==
  { shown \in { [i \in DOMAIN results |-> results[p[i]]] :
                 p \in Orders(Len(results)) } :
      \A i, j \in DOMAIN shown :
        i < j => ~(compare(shown[i], shown[j]) > 0
                     /\ compare(shown[j], shown[i]) < 0) }

\* The comparator of the sort (lines 128-132) reads a.result!.total_score
\* and b.result!.total_score once it has found both entries successful.
ComparatorReadsResults(a, b) == a.success /\ b.success

----------------------------------------------------------------------------
(* Steps of the behaviour, by what they do to inflight. *)

\* This step settles the i-th call, an op call, and resumes its handler.
Resumes(i, op) ==
  /\ i \in DOMAIN inflight
  /\ inflight[i].op = op
  /\ inflight' = RemoveAt(inflight, i)
  /\ received' # NULL
  /\ received'[1].op = op

\* The response is OK and its body was read.
OkWithBody(resp) == ~resp.rejected /\ resp.ok /\ resp.body # NULL

\* An analyze response with success = true and a result.
SuccessWithResult(resp) ==
  /\ OkWithBody(resp)
  /\ resp.body[1].success
  /\ resp.body[1].result # NULL

\* Every BulkReport there is: the one Home holds and the one of the
\* response just received.
Reports ==
  { bulkResult[k] : k \in DOMAIN bulkResult }
    \cup { received[k].resp.body[1] :
             k \in { n \in DOMAIN received :
                       /\ received[n].op = "analyze-bulk"
                       /\ OkWithBody(received[n].resp) } }

----------------------------------------------------------------------------
(* The claims. *)

\* C1: in single-file mode every analysis attempt that does not return
\* success = true together with a result (status not OK, fetch or body
\* parsing throws, success = false, success = true without result) ends in
\* status 'error' with a non-empty error message, and leaves no result.
C1_FailedAnalysisEndsInError ==
  [][\A i \in DOMAIN inflight :
       (Resumes(i, "analyze") /\ ~SuccessWithResult(received'[1].resp))
         => /\ status' = "error"
            /\ Truthy(error')
            /\ result' = NULL]_vars

\* An analysis answered success = true without a result has ended in the
\* error state with the default message.
C1_Witness ==
  /\ mode = "single"
  /\ status = "error"
  /\ error = Some(<<"Analiz basarisiz oldu">>)
  /\ result = NULL

\* C2: for a list of N files of which any subset fails, runBulk returns
\* exactly N results in input order, results[i] is the i-th file's and has
\* success = false exactly when that file failed, and the failure of one
\* file changes no other file's result; the client appends the files to
\* the request in selection order.
C2_BulkIsolationAndOrder ==
  /\ \A k \in DOMAIN inflight :
       inflight[k].op = "analyze-bulk" =>
         FormFiles(inflight[k].form, "files") = selectedFiles
  /\ \A k \in DOMAIN inflight :
       inflight[k].op = "analyze-bulk" =>
         LET files == FormFiles(inflight[k].form, "files")
             late == FormOnTime(inflight[k].form)
             Vectors == [1..Len(files) -> PipelineOutcomes]
             report == [o \in Vectors |-> runBulk(files, late, o)]
         IN  /\ \A o \in Vectors :
                  /\ Len(report[o].results) = Len(selectedFiles)
                  /\ \A i \in 1..Len(selectedFiles) :
                       /\ report[o].results[i].filename
                            = selectedFiles[i].name
                       /\ report[o].results[i].success = ~o[i].failed
             /\ \A o1, o2 \in Vectors :
                  \A j \in 1..Len(files) :
                    o1[j] = o2[j] =>
                      report[o1].results[j] = report[o2].results[j]
  /\ Screen = "bulkResults" =>
       /\ Len(bulkResult[1].results) = Len(selectedFiles)
       /\ \A i \in 1..Len(selectedFiles) :
            bulkResult[1].results[i].filename = selectedFiles[i].name

\* A report of two different files is displayed, the first failed and the
\* second graded.
C2_Witness ==
  /\ Screen = "bulkResults"
  /\ Len(bulkResult[1].results) = 2
  /\ selectedFiles[1] # selectedFiles[2]
  /\ ~bulkResult[1].results[1].success
  /\ bulkResult[1].results[2].success

\* C3 as stated: a bulk analysis whose HTTP response is OK always ends in
\* status 'complete' with the report displayed.
C3_OkAlwaysComplete ==
  [][\A i \in DOMAIN inflight :
       (/\ Resumes(i, "analyze-bulk")
        /\ ~received'[1].resp.rejected
        /\ received'[1].resp.ok)
         => /\ status' = "complete"
            /\ Screen' = "bulkResults"]_vars

\* C3, amended: a bulk analysis whose HTTP response is OK and whose body
\* is read ends in status 'complete' with the whole report displayed,
\* whatever the number of failed files: a failed StudentResult is an error
\* card with its error text, a successful one a score card with its score,
\* and the status is not 'error'.
C3_OkWithBodyAlwaysComplete ==
  [][\A i \in DOMAIN inflight :
       (Resumes(i, "analyze-bulk") /\ OkWithBody(received'[1].resp))
         => LET report == received'[1].resp.body[1]
            IN  /\ status' = "complete"
                /\ Screen' = "bulkResults"
                /\ bulkResult' = Some(report)
                /\ DOMAIN ResultCards(bulkResult'[1]) = DOMAIN report.results
                /\ \A j \in DOMAIN report.results :
                     LET entry == report.results[j]
                         card == ResultCards(bulkResult'[1])[j]
                     IN  IF entry.success
                           THEN /\ card.kind = "score"
                                /\ card.score
                                     = Some(entry.result[1].total_score)
                           ELSE /\ card.kind = "error"
                                /\ card.text = entry.error]_vars

\* A report in which every file failed is displayed.
C3_Witness ==
  /\ Screen = "bulkResults"
  /\ status = "complete"
  /\ Len(bulkResult[1].results) = 2
  /\ \A j \in DOMAIN bulkResult[1].results :
       ResultCards(bulkResult[1])[j].kind = "error"

\* C4: in every BulkReport total_files is the number of results,
\* successful the number of entries with success = true, failed the number
\* with success = false, and successful + failed = total_files; so the
\* numbers of the summary cards are the numbers of score cards and of
\* error cards listed below them.
C4_CountsConsistent ==
  /\ \A report \in Reports :
       /\ report.total_files = Len(report.results)
       /\ report.successful
            = Cardinality({j \in DOMAIN report.results :
                             report.results[j].success})
       /\ report.failed
            = Cardinality({j \in DOMAIN report.results :
                             ~report.results[j].success})
       /\ report.successful + report.failed = report.total_files
  /\ Screen = "bulkResults" =>
       LET cards == ResultCards(bulkResult[1])
       IN  /\ SummaryCards(bulkResult[1]).successful
                = Cardinality({j \in DOMAIN cards : cards[j].kind = "score"})
           /\ SummaryCards(bulkResult[1]).failed
                = Cardinality({j \in DOMAIN cards : cards[j].kind = "error"})

\* A displayed report with two graded files and none failed.
C4_Witness ==
  /\ Screen = "bulkResults"
  /\ bulkResult[1].successful = 2
  /\ bulkResult[1].failed = 0

\* C5: in every StudentResult result is present exactly when success is
\* true and error exactly when it is false; BulkResultsDisplay reads the
\* result of every successful entry (card and comparator) without a
\* presence check, and so never reads the result of an entry without one.
C5_ResultIffSuccess ==
  /\ \A report \in Reports :
       \A j \in DOMAIN report.results :
         /\ (report.results[j].result # NULL) = report.results[j].success
         /\ (report.results[j].error # NULL) = ~report.results[j].success
  /\ Screen = "bulkResults" =>
       LET entries == bulkResult[1].results
       IN  /\ \A j \in DOMAIN entries :
                StudentResultCard(entries[j]).kind # "throws"
           /\ \A j, k \in DOMAIN entries :
                ComparatorReadsResults(entries[j], entries[k])
                  => entries[j].result # NULL /\ entries[k].result # NULL

\* A displayed report with a graded file first and a failed file second.
C5_Witness ==
  /\ Screen = "bulkResults"
  /\ Len(bulkResult[1].results) = 2
  /\ StudentResultCard(bulkResult[1].results[1]).kind = "score"
  /\ StudentResultCard(bulkResult[1].results[2]).kind = "error"

\* A name whose last five characters are ".pptx" in any mix of cases.
HasPptxExtension(name) ==
  LET n == Len(name)
  IN  /\ n >= 5
      /\ name[n - 4] = "."
      /\ name[n - 3] \in {"p", "P"}
      /\ name[n - 2] \in {"p", "P"}
      /\ name[n - 1] \in {"t", "T"}
      /\ name[n] \in {"x", "X"}

\* The files Home holds as its selection and those of the requests sent.
SelectedOrSent ==
  { selectedFile[k] : k \in DOMAIN selectedFile }
    \cup { selectedFiles[k] : k \in DOMAIN selectedFiles }
    \cup UNION { { AllFormFiles(inflight[k].form)[j] :
                     j \in DOMAIN AllFormFiles(inflight[k].form) } :
                 k \in DOMAIN inflight }

\* C6: after any sequence of drops, file-dialog selections, mode switches
\* and resets, every file sent by analyzePresentation, analyzeBulk or
\* exportExcel has a name ending in '.pptx' whatever the case, and no
\* other file is stored as selectedFile or in selectedFiles.
C6_OnlyPptxSelectedOrSent ==
  \A file \in SelectedOrSent : HasPptxExtension(file.name)

\* An export request carries a file whose extension is in capitals.
C6_Witness ==
  \E k \in DOMAIN inflight :
    /\ inflight[k].op = "export-excel"
    /\ \E j \in DOMAIN FormFiles(inflight[k].form, "files") :
         LET name == FormFiles(inflight[k].form, "files")[j].name
         IN  name[Len(name)] = "X"

\* C7: a file larger than 15MB is never accepted for analysis: in single
\* and in bulk mode no file whose size exceeds 15MB is selected or
\* submitted.
C7_NoFileOver15MB ==
  \A file \in SelectedOrSent : file.size <= MaxFileSizeMB * MB

\* C8: single-file submission carries exactly one file: of several files
\* dropped or chosen in single mode only the first is considered, it
\* becomes the selection only if it is a .pptx (otherwise the drop selects
\* nothing, even if a later file is a .pptx), and the analyze request has
\* exactly one 'file' part, the selected file.
C8_SingleModeFirstFileOnly ==
  [][
      /\ (mode = "single" /\ dropped' # NULL) =>
           LET first == dropped'[1][1]
           IN  selectedFile' = IF HasPptxExtension(first.name)
                                 THEN Some(first) ELSE selectedFile
      /\ \A k \in DOMAIN inflight' :
           inflight'[k].op = "analyze" =>
             /\ Len(PartsNamed(inflight'[k].form, "file")) = 1
             /\ Len(AllFormFiles(inflight'[k].form)) = 1
      /\ (mode = "single" /\ Len(inflight') = Len(inflight) + 1) =>
           /\ inflight'[Len(inflight')].op = "analyze"
           /\ AllFormFiles(inflight'[Len(inflight')].form) = selectedFile
    ]_vars

\* Two files were dropped in single mode, the second of them a .pptx, and
\* nothing is selected.
C8_Witness ==
  /\ mode = "single"
  /\ dropped # NULL
  /\ Len(dropped[1]) = 2
  /\ ~HasPptxExtension(dropped[1][1].name)
  /\ HasPptxExtension(dropped[1][2].name)
  /\ selectedFile = NULL

\* C9: every failed operation carries a message the user sees: after a
\* failed single analysis, a failed bulk analysis or a failed Excel export
\* a non-empty error message is on the screen.
C9_FailureShowsMessage ==
  [][\A i \in DOMAIN inflight :
       (\/ Resumes(i, "analyze") /\ ~SuccessWithResult(received'[1].resp)
        \/ Resumes(i, "analyze-bulk") /\ ~OkWithBody(received'[1].resp)
        \/ Resumes(i, "export-excel") /\ ~OkWithBody(received'[1].resp))
         => ErrorShown']_vars

\* C10: the Excel export is a projection of the report that is displayed:
\* the exported rows are those of the displayed report, scores included.
C10_ExportIsProjectionOfDisplayed ==
  (downloaded # NULL /\ Screen = "bulkResults")
    => downloaded[1] = ExcelOf(bulkResult[1])

\* Every GradingResult there is: the one Home holds, those of the reports
\* and the one of the analyze response just received.
GradingResults ==
  { result[k] : k \in DOMAIN result }
    \cup UNION { { report.results[j].result[1] :
                     j \in { n \in DOMAIN report.results :
                               report.results[n].result # NULL } } :
                 report \in Reports }
    \cup { received[k].resp.body[1].result[1] :
             k \in { n \in DOMAIN received :
                       /\ received[n].op = "analyze"
                       /\ OkWithBody(received[n].resp)
                       /\ received[n].resp.body[1].result # NULL } }

\* The files the pipeline graded behind the response just received.
Graded ==
  { evaluated[1][k] :
      k \in { n \in DOMAIN OrElse(evaluated, <<>>) : ~evaluated[1][n].failed } }

\* C11: for every GradingResult, 0 <= total_score <= 100.
C11_TotalScoreBounded ==
  \A g \in GradingResults :
    g.total_score >= 0 /\ g.total_score <= MaxTotalScore

\* A result with the full 100 points is displayed: every category at its
\* maximum, handed in on time.
C11_Witness ==
  /\ Screen = "results"
  /\ result[1].on_time_submitted
  /\ result[1].total_score = MaxTotalScore

C13_RubricScoreClamped ==
  \A g \in GradingResults :
    \A c \in DOMAIN g.rubric_scores :
      /\ g.rubric_scores[c].score >= 0
      /\ g.rubric_scores[c].score <= g.rubric_scores[c].max_score

\* The evaluator returned a negative score for the first category and one
\* above the maximum for the second; the result displayed has 0 and the
\* maximum.
C13_Witness ==
  /\ Screen = "results"
  /\ \E o \in Graded :
       /\ o.raw[1] < 0
       /\ o.raw[2] > CategoryMax[2]
  /\ result[1].rubric_scores[1].score = 0
  /\ result[1].rubric_scores[2].score = CategoryMax[2]

\* C14: for every CheckResult of a deterministic check, on any
\* DocumentModel including an empty or malformed one,
\* 0 <= score <= max_score.
C14_CheckScoreBounded ==
  \A g \in GradingResults :
    \A k \in DOMAIN g.deterministic_checks :
      /\ g.deterministic_checks[k].score >= 0
      /\ g.deterministic_checks[k].score <= g.deterministic_checks[k].max_score

\* A report of two files is displayed, one of a document without slides
\* (no check passed, no points) and one of a document with more
\* principles than the threshold (the check at its maximum).
C14_Witness ==
  /\ Screen = "bulkResults"
  /\ evaluated # NULL
  /\ Len(evaluated[1]) = 2
  /\ ~evaluated[1][1].failed /\ evaluated[1][1].doc = EmptyDoc
  /\ ~evaluated[1][2].failed
  /\ Cardinality(Labels(evaluated[1][2].doc, "principle")) > PrincipleThreshold
  /\ \A k \in 1..3 :
       /\ ~bulkResult[1].results[1].result[1].deterministic_checks[k].passed
       /\ bulkResult[1].results[1].result[1].deterministic_checks[k].score = 0
  /\ bulkResult[1].results[2].result[1].deterministic_checks[2].score
       = bulkResult[1].results[2].result[1].deterministic_checks[2].max_score

\* C15: the maxima of the rubric categories (Ethics Principles 15, Scene
\* Explanation 50, Template Compliance 15, Visual Design 10) sum to 90, the
\* on-time bonus is 10, together they are 100; the sub-criteria of Scene
\* Explanation (20 + 15 + 15) sum to its 50.  Every RubricScore carries the
\* maximum of its category.
C15_RubricSumsTo100 ==
  /\ CategoryMax = <<15, 50, 15, 10>>
  /\ SumSeq(CategoryMax) = 90
  /\ OnTimeBonus = 10
  /\ SumSeq(CategoryMax) + OnTimeBonus = MaxTotalScore
  /\ MaxTotalScore = 100
  /\ SceneSubMax = <<20, 15, 15>>
  /\ SumSeq(SceneSubMax) = CategoryMax[2]
  /\ \A g \in GradingResults :
       /\ Len(g.rubric_scores) = Len(Categories)
       /\ \A c \in DOMAIN g.rubric_scores :
            /\ g.rubric_scores[c].category = Categories[c]
            /\ g.rubric_scores[c].max_score = CategoryMax[c]
       /\ SumSeq([c \in DOMAIN g.rubric_scores |->
                    g.rubric_scores[c].max_score]) = 90

\* A result not handed in on time with every category at its maximum is
\* displayed: 90 points.
C15_Witness ==
  /\ Screen = "results"
  /\ ~result[1].on_time_submitted
  /\ \A c \in DOMAIN result[1].rubric_scores :
       result[1].rubric_scores[c].score = result[1].rubric_scores[c].max_score
  /\ result[1].total_score = 90

C17_OnTimeAsToggledAtStart ==
  [][
      /\ Len(inflight') = Len(inflight) + 1 =>
           LET sent == PartsNamed(inflight'[Len(inflight')].form, "on_time")
           IN  /\ Len(sent) = 1
               /\ sent[1].text = Some(IF onTime THEN "true" ELSE "false")
      /\ \A k \in DOMAIN inflight' :
           \/ \E j \in DOMAIN inflight : inflight[j] = inflight'[k]
           \/ k = Len(inflight') /\ Len(inflight') = Len(inflight) + 1
      /\ onTime' # onTime => inflight' = inflight
    ]_vars

\* An export started with the toggle on is in flight, and the toggle has
\* been switched off since.
C17_Witness ==
  /\ ~onTime
  /\ \E k \in DOMAIN inflight :
       /\ inflight[k].op = "export-excel"
       /\ PartsNamed(inflight[k].form, "on_time")[1].text = Some("true")

\* A list that holds every entry of results as often as results does, the
\* successful entries first and in non-increasing order of total_score.
SortedAsClaimed(results, shown) ==
  /\ Len(shown) = Len(results)
  /\ \A k \in DOMAIN results :
       Cardinality({i \in DOMAIN shown : shown[i] = results[k]})
         = Cardinality({i \in DOMAIN results : results[i] = results[k]})
  /\ \A i, j \in DOMAIN shown :
       i < j =>
         /\ shown[j].success => shown[i].success
         /\ (shown[i].success /\ shown[j].success) =>
              shown[i].result[1].total_score >= shown[j].result[1].total_score

\* C18: the list shown by BulkResultsDisplay is a permutation of
\* result.results in which every successful entry precedes every failed
\* one and the successful entries are in non-increasing order of
\* total_score; the sort works on a copy: result.results is what the
\* response carried, in its order, as long as the report is displayed.
C18_ShownListSorted ==
  [][
      /\ Screen' = "bulkResults" =>
           /\ sortedResults(bulkResult'[1].results) # {}
           /\ \A shown \in sortedResults(bulkResult'[1].results) :
                SortedAsClaimed(bulkResult'[1].results, shown)
      /\ \A i \in DOMAIN inflight :
           (Resumes(i, "analyze-bulk") /\ OkWithBody(received'[1].resp)) =>
             bulkResult'[1].results = received'[1].resp.body[1].results
      /\ (Screen = "bulkResults" /\ Screen' = "bulkResults") =>
           bulkResult' = bulkResult
    ]_vars

\* A report is displayed whose first entry scored less than its second:
\* the list shown begins with the second, result.results with the first.
C18_Witness ==
  /\ Screen = "bulkResults"
  /\ Len(bulkResult[1].results) = 2
  /\ bulkResult[1].results[1].success
  /\ bulkResult[1].results[2].success
  /\ bulkResult[1].results[1].result[1].total_score
       < bulkResult[1].results[2].result[1].total_score
  /\ \A shown \in sortedResults(bulkResult[1].results) :
       shown[1] = bulkResult[1].results[2]
  /\ bulkResult[1].results[1].filename = selectedFiles[1].name

\* C19: in bulk (multiple) mode the list handed to onFilesSelect is the
\* subsequence of the dropped or chosen files whose name ends in '.pptx'
\* whatever the case, in their order; the other files are dropped without
\* alert or error message when at least one file is valid; when none is,
\* the alert is shown, no callback is invoked and the selection is left as
\* it was.
C19_BulkSelectsPptxSubsequence ==
  [][
      (mode = "bulk" /\ dropped' # NULL) =>
        LET valid == SelectSeq(dropped'[1],
                               LAMBDA f : HasPptxExtension(f.name))
        IN  IF valid # <<>>
              THEN /\ selectedFiles' = valid
                   /\ ~alerted'
                   /\ error' = NULL
                   /\ status' = "idle"
                   /\ bulkResult' = NULL
              ELSE /\ alerted'
                   /\ UNCHANGED <<mode, status, selectedFile, onTime, error,
                                  result, selectedFiles, bulkResult>>
    ]_vars

\* Two files were dropped in bulk mode, the first of another kind: the
\* second alone is the selection and no alert was shown.
C19_Witness ==
  /\ mode = "bulk"
  /\ dropped # NULL
  /\ Len(dropped[1]) = 2
  /\ ~HasPptxExtension(dropped[1][1].name)
  /\ HasPptxExtension(dropped[1][2].name)
  /\ selectedFiles = <<dropped[1][2]>>
  /\ ~alerted

\* The default message of each call (api.ts:40, 105, 132).
DefaultMessage(op) ==
  IF op = "analyze" THEN <<"Analysis failed">>
  ELSE IF op = "analyze-bulk" THEN <<"Bulk analysis failed">>
  ELSE <<"Excel export failed">>

\* What the call of an operation gives its caller on a response.
CallOutcome(op, resp) ==
  IF op = "analyze" THEN analyzePresentation(resp)
  ELSE IF op = "analyze-bulk" THEN analyzeBulk(resp)
  ELSE exportExcel(resp)

\* C20: for analyzePresentation, analyzeBulk and exportExcel a response
\* whose status is not OK always makes the call throw an APIError that
\* carries the HTTP status and, as message, the body's detail when there is
\* one (a non-empty string) and otherwise the operation's default message,
\* also when the body is no valid JSON; a response whose status is OK
\* never throws an APIError.
C20_NotOkThrowsAPIError ==
  received # NULL =>
    LET op == received[1].op
        resp == received[1].resp
        r == CallOutcome(op, resp)
    IN  /\ (~resp.rejected /\ ~resp.ok) =>
             /\ r.threw = "APIError"
             /\ r.status = resp.status
             /\ r.message
                  = IF /\ resp.body # NULL
                       /\ ~resp.body[1].isNull
                       /\ Truthy(resp.body[1].detail)
                      THEN resp.body[1].detail[1]
                      ELSE DefaultMessage(op)
        /\ (~resp.rejected /\ resp.ok) => r.threw # "APIError"

\* What handleReset leaves behind (page.tsx:112-120).
AfterReset ==
  /\ status' = "idle"
  /\ selectedFile' = NULL
  /\ selectedFiles' = <<>>
  /\ onTime' = FALSE
  /\ error' = NULL
  /\ result' = NULL
  /\ bulkResult' = NULL

\* This step sends a request of operation op.
Sends(op) ==
  /\ Len(inflight') = Len(inflight) + 1
  /\ inflight'[Len(inflight')].op = op

\* C21: selectedFile and selectedFiles change only while status is 'idle'
\* or through handleReset: with any other status a drop or click on the
\* upload zone invokes no selection callback (and shows no alert); so the
\* files an Excel export sends are the files of the bulk analysis whose
\* results are displayed: the report displayed is the answer to a request
\* that carried the selection, the selection and the report stay as they
\* are while the report is displayed, and the export sends the selection.
C21_SelectionOnlyWhenIdle ==
  [][
      /\ (selectedFile' # selectedFile \/ selectedFiles' # selectedFiles) =>
           status = "idle" \/ AfterReset
      /\ dropped' # NULL => status = "idle"
      /\ \A i \in DOMAIN inflight :
           (Resumes(i, "analyze-bulk") /\ Screen' = "bulkResults") =>
             /\ FormFiles(inflight[i].form, "files") = selectedFiles
             /\ selectedFiles' = selectedFiles
      /\ (Screen = "bulkResults" /\ Screen' = "bulkResults") =>
           /\ selectedFiles' = selectedFiles
           /\ bulkResult' = bulkResult
      /\ Sends("export-excel") =>
           /\ Screen = "bulkResults"
           /\ Screen' = "bulkResults"
           /\ FormFiles(inflight'[Len(inflight')].form, "files")
                = selectedFiles
    ]_vars

\* The report of two files is displayed and an export that carries the
\* two, in their order, is in flight.
C21_Witness ==
  /\ Screen = "bulkResults"
  /\ Len(selectedFiles) = 2
  /\ Len(bulkResult[1].results) = 2
  /\ \E k \in DOMAIN inflight :
       /\ inflight[k].op = "export-excel"
       /\ FormFiles(inflight[k].form, "files") = selectedFiles

\* The sum of the values of a function over its finite domain.
RECURSIVE SumFn(_)
SumFn(f) ==
  IF DOMAIN f = {} THEN 0
  ELSE LET j == CHOOSE k \in DOMAIN f : TRUE
       IN  f[j] + SumFn([k \in DOMAIN f \ {j} |-> f[k]])

\* C22: the average shown for a bulk report is the sum of total_score over
\* exactly the entries with success = true and a result, divided by the
\* number of such entries, and 0 when there is none; failed entries
\* contribute neither to the sum nor to the divisor.  The card shows the
\* quotient to one decimal place.
C22_AverageOverGraded ==
  Screen = "bulkResults" =>
    LET entries == bulkResult[1].results
        graded == { j \in DOMAIN entries :
                      entries[j].success /\ entries[j].result # NULL }
        sum == SumFn([j \in graded |-> entries[j].result[1].total_score])
        n == Cardinality(graded)
        shown == toFixed1(avgScore(bulkResult[1]))
    IN  IF n = 0
          THEN /\ avgScore(bulkResult[1]) = [num |-> 0, den |-> 1]
               /\ shown = 0
          ELSE /\ avgScore(bulkResult[1]) = [num |-> sum, den |-> n]
               /\ 2 * (shown * n - 10 * sum) <= n
               /\ 2 * (10 * sum - shown * n) <= n

\* A report with a failed entry and a graded one is displayed: the average
\* is the score of the graded one.
C22_Witness ==
  /\ Screen = "bulkResults"
  /\ Len(bulkResult[1].results) = 2
  /\ ~bulkResult[1].results[1].success
  /\ bulkResult[1].results[2].success
  /\ toFixed1(avgScore(bulkResult[1]))
       = 10 * bulkResult[1].results[2].result[1].total_score

C24_AnalysisEnds ==
  /\ [](status # "uploading")
  /\ [][Sends("analyze") \/ Sends("analyze-bulk") => status' = "analyzing"]_vars
  /\ [][\A i \in DOMAIN inflight :
          (Resumes(i, "analyze") \/ Resumes(i, "analyze-bulk"))
            => status = "analyzing" /\ status' \in {"complete", "error"}]_vars
  /\ [][status = "analyzing" =>
          status' \in {"analyzing", "complete", "error"}]_vars
  /\ (status = "analyzing") ~> (status \in {"complete", "error"})

\* A bulk analysis is in flight, the progress screen is shown, and the
\* export of an earlier session has not settled either.
C24_Witness ==
  /\ status = "analyzing"
  /\ Screen = "progress"
  /\ \E k \in DOMAIN inflight : inflight[k].op = "analyze-bulk"
  /\ \E k \in DOMAIN inflight : inflight[k].op = "export-excel"

\* The analysis requests, single and bulk, that have not settled.
AnalysesInFlight ==
  { k \in DOMAIN inflight : inflight[k].op \in {"analyze", "analyze-bulk"} }

\* C25: at most one analysis request, single or bulk, is in flight at any
\* time, and one is exactly while the status is 'uploading' or 'analyzing';
\* in that status no step starts another analysis (or any request),
\* selects files, toggles on-time, switches the mode or resets.
C25_OneAnalysisAtATime ==
  [][
      /\ Cardinality(AnalysesInFlight) <= 1
      /\ Cardinality(AnalysesInFlight') <= 1
      /\ (status' \in {"uploading", "analyzing"}) = (AnalysesInFlight' # {})
      /\ status \in {"uploading", "analyzing"} =>
           /\ Len(inflight') <= Len(inflight)
           /\ dropped' = NULL
           /\ UNCHANGED <<mode, selectedFile, selectedFiles, onTime>>
           /\ status' # "idle"
    ]_vars

\* One analysis of a file is in flight, started with the toggle on.
C25_Witness ==
  /\ status = "analyzing"
  /\ mode = "single"
  /\ selectedFile # NULL
  /\ onTime
  /\ Cardinality(AnalysesInFlight) = 1

\* C26: an export request still in flight when handleReset runs does not
\* affect the new session when it completes: whether it succeeds or fails,
\* status, selectedFile, selectedFiles, onTime, result, bulkResult and
\* error keep the values the new session gave them.  An export that
\* settles while no report is displayed is such a request: exports start
\* on the bulk results screen, which is left through handleReset only.
C26_StaleExportLeavesSessionAlone ==
  [][\A i \in DOMAIN inflight :
       (Resumes(i, "export-excel") /\ Screen # "bulkResults")
         => UNCHANGED <<status, selectedFile, selectedFiles, onTime, result,
                        bulkResult, error>>]_vars

\* The export requests that have not settled.
ExportsInFlight ==
  { k \in DOMAIN inflight : inflight[k].op = "export-excel" }

\* C27: isExporting is true exactly while an export request is in flight:
\* it is set by the step that sends the request, cleared by the step in
\* which the request settles, whether it succeeded or failed, and altered
\* by no other step, handleReset included; so at most one export request
\* is in flight at any time, also across a reset and a new bulk analysis.
C27_ExportingIffExportInFlight ==
  [][
      /\ isExporting = (ExportsInFlight # {})
      /\ isExporting' = (ExportsInFlight' # {})
      /\ Cardinality(ExportsInFlight') <= 1
      /\ Sends("export-excel") => ~isExporting /\ isExporting'
      /\ \A i \in DOMAIN inflight :
           Resumes(i, "export-excel") => isExporting /\ ~isExporting'
      /\ isExporting' # isExporting =>
           \/ Sends("export-excel")
           \/ \E i \in DOMAIN inflight : Resumes(i, "export-excel")
    ]_vars

\* The report of a new bulk analysis is displayed while the export of the
\* session before the reset is still in flight: the export button is
\* disabled.
C27_Witness ==
  /\ Screen = "bulkResults"
  /\ isExporting
  /\ Cardinality(ExportsInFlight) = 1
  /\ \A k \in ExportsInFlight :
       FormFiles(inflight[k].form, "files") # selectedFiles

\* C28: once the status is 'error' it stays 'error' until a new analysis
\* is started on the same selection (the status becomes 'analyzing', the
\* selection is the one sent) or handleReset runs through a mode button:
\* no step from 'error' that is not that reset changes the selection, no
\* file is read from a drop or a dialog, and a step that clears the
\* message (Kapat) changes nothing else of the session.
C28_ErrorUntilAnalysisOrReset ==
  [][
      status = "error" =>
        /\ Screen = "upload"
        /\ UploadDisabled
        /\ dropped' = NULL
        /\ \/ /\ status' = "error"
              /\ UNCHANGED <<mode, selectedFile, selectedFiles, result,
                             bulkResult>>
              /\ (Truthy(error) /\ error' = NULL) =>
                   UNCHANGED <<onTime, isExporting, inflight>>
           \/ /\ status' = "analyzing"
              /\ Sends("analyze") \/ Sends("analyze-bulk")
              /\ AllFormFiles(inflight'[Len(inflight')].form)
                   = selectedFile \o selectedFiles
              /\ UNCHANGED <<mode, selectedFile, selectedFiles, onTime,
                             result, bulkResult>>
           \/ /\ status' = "idle"
              /\ AfterReset
              /\ UNCHANGED <<isExporting, inflight>>
    ]_vars

\* The message of a failed analysis has been dismissed: the status is
\* still 'error', the file is still selected and the upload zone is still
\* disabled.
C28_Witness ==
  /\ status = "error"
  /\ error = NULL
  /\ selectedFile # NULL
  /\ UploadDisabled
  /\ Screen = "upload"

\* C29: handleReset sets status to 'idle', selectedFile to null,
\* selectedFiles to empty, onTime to false, error to null, result to null
\* and bulkResult to null, and leaves mode and isExporting unchanged; every
\* click on a mode button, the button of the active mode included, sets
\* the mode of the button and performs this reset, and both buttons can be
\* clicked whenever the upload form is shown; the mode changes in no other
\* way.
C29_ResetFrame ==
  [][
      /\ ClickReset =>
           /\ AfterReset
           /\ UNCHANGED <<mode, isExporting, inflight>>
      /\ \A m \in UploadModes :
           /\ ClickModeButton(m) =>
                /\ mode' = m
                /\ AfterReset
                /\ UNCHANGED <<isExporting, inflight>>
           /\ Screen = "upload" => ENABLED ClickModeButton(m)
      /\ mode' # mode => AfterReset /\ Screen = "upload"
    ]_vars

\* The upload form of the single mode, reset, while the export of a bulk
\* session is in flight: the mode button was clicked and isExporting is
\* as it was.
C29_Witness ==
  /\ mode = "single"
  /\ isExporting
  /\ status = "idle"
  /\ selectedFile = NULL
  /\ selectedFiles = <<>>
  /\ ~onTime
  /\ error = NULL
  /\ result = NULL
  /\ bulkResult = NULL
  /\ dropped = NULL

\* C30: in every reachable state the data of the inactive mode is empty:
\* mode 'single' implies selectedFiles is empty and bulkResult is null,
\* mode 'bulk' implies selectedFile is null and result is null.
C30_InactiveModeEmpty ==
  /\ mode = "single" => selectedFiles = <<>> /\ bulkResult = NULL
  /\ mode = "bulk" => selectedFile = NULL /\ result = NULL

\* A file is selected in single mode while the export of a bulk session
\* that came before is still in flight; of that session nothing is left.
C30_Witness ==
  /\ mode = "single"
  /\ selectedFile # NULL
  /\ status = "idle"
  /\ selectedFiles = <<>>
  /\ bulkResult = NULL
  /\ ExportsInFlight # {}

====
